---- MODULE Spec2Model ----
(***************************************************************************)
(* A model of gpx_combine.py: the per-track filter pipeline (keepevery,    *)
(* linearize, filterlatlon, the strip steps), the distance sum and main's  *)
(* loop that combines the tracks of several GPX files into one tree.       *)
(*                                                                         *)
(* A trk element is a record [name, kids, segs]: its name text, the set of *)
(* tags of its other leaf children ("time", "extensions") and the          *)
(* sequence of its trkseg children, each the sequence of its trkpt         *)
(* children.  A trkpt is [lat, lon, kids]: the texts of its two            *)
(* attributes and the set of tags of its children.  A text is a sequence   *)
(* of one-character strings.  float() is exact decimal arithmetic, scaled  *)
(* by Scale; a sum of haversine terms is the bag of its terms.             *)
(***************************************************************************)
EXTENDS Integers, Sequences, FiniteSets, Bags, TLC

VARIABLES
    trees,          \* file index -> the trk children of that file's root, as element ids
    elem,           \* element id -> the trk element
    orig,           \* elem as parsed (history, never changed)
    args,           \* the parsed command line
    master_tree,    \* None, or the index of the file whose tree receives the tracks
    total_distance, \* main's accumulator
    fileIdx,        \* position of "for gpx_file in sorted(args.gpxfile)"
    iterIdx,        \* position of the iterator tree.iter(trk) in the root's children
    segment,        \* the loop variable of main's inner loop
    pc,             \* the statement main (or the called function) is at
    runs,           \* element id -> how often main's loop body took it (history)
    steps,          \* the functions called so far in the current loop body (history)
    removed_log,    \* the removals of the last linearize call (history)
    added           \* element id -> what its loop bodies added to total_distance (history)

vars == <<trees, elem, orig, args, master_tree, total_distance, fileIdx, iterIdx,
          segment, pc, runs, steps, removed_log, added>>

None == 0

----------------------------------------------------------------------------
(* Bounds of the model. *)

\* digits after the decimal point that float() keeps exactly
FracDigits == 2
\* tracks in all input files of one run of main
MaxTracks == 2
\* largest --keepevery in a run of main
MaxK == 2
\* loop bodies one run of main may take (the loop can run forever)
MaxRuns == 8
\* longest coordinate text given to striptrailingzeros on its own
MaxLen == 4
\* most points of a segment given to keepevery on its own
MaxKeepPts == 10
\* largest k given to keepevery on its own
MaxKeepK == 4
\* most points of a segment given to linearize on its own
MaxLinPts == 5

----------------------------------------------------------------------------
(* Texts and float(). *)

Digits == {"0", "1", "2", "3", "4", "5", "6", "7", "8", "9"}

DigitVal(c) ==
    CASE c = "0" -> 0 [] c = "1" -> 1 [] c = "2" -> 2 [] c = "3" -> 3 [] c = "4" -> 4
      [] c = "5" -> 5 [] c = "6" -> 6 [] c = "7" -> 7 [] c = "8" -> 8 [] c = "9" -> 9

DigitChar(d) ==
    CASE d = 0 -> "0" [] d = 1 -> "1" [] d = 2 -> "2" [] d = 3 -> "3" [] d = 4 -> "4"
      [] d = 5 -> "5" [] d = 6 -> "6" [] d = 7 -> "7" [] d = 8 -> "8" [] d = 9 -> "9"

RECURSIVE IntText(_)
\* str(n) for n >= 0
IntText(n) == IF n < 10 THEN <<DigitChar(n)>> ELSE Append(IntText(n \div 10), DigitChar(n % 10))

RECURSIVE Pow10(_)
Pow10(n) == IF n = 0 THEN 1 ELSE 10 * Pow10(n - 1)

Scale == Pow10(FracDigits)

RECURSIVE DigitsValue(_)
DigitsValue(s) == IF s = <<>> THEN 0 ELSE 10 * DigitsValue(SubSeq(s, 1, Len(s) - 1)) + DigitVal(s[Len(s)])

ValueError == "ValueError"

\* the texts float() accepts, among the texts over digits, "." and "-"
IsFloatText(s) ==
    LET body == IF s # <<>> /\ s[1] = "-" THEN Tail(s) ELSE s
    IN  /\ \A i \in 1..Len(body) : body[i] \in Digits \cup {"."}
        /\ Cardinality({i \in 1..Len(body) : body[i] = "."}) <= 1
        /\ \E i \in 1..Len(body) : body[i] \in Digits

\* float(s), times Scale; ValueError where float() raises
Float(s) ==
    IF ~IsFloatText(s) THEN ValueError
    ELSE LET neg  == s[1] = "-"
             body == IF neg THEN Tail(s) ELSE s
             dot  == IF \E i \in 1..Len(body) : body[i] = "."
                     THEN CHOOSE i \in 1..Len(body) : body[i] = "."
                     ELSE Len(body) + 1
             ip   == SubSeq(body, 1, dot - 1)
             fp   == SubSeq(body, dot + 1, Len(body))
             mag  == DigitsValue(ip) * Scale + DigitsValue(fp) * Pow10(FracDigits - Len(fp))
         IN  IF neg THEN 0 - mag ELSE mag

RECURSIVE RStripZero(_)
\* s.rstrip('0')
RStripZero(s) ==
    IF s # <<>> /\ s[Len(s)] = "0" THEN RStripZero(SubSeq(s, 1, Len(s) - 1)) ELSE s

----------------------------------------------------------------------------
(* Elements and the walk of _iterate_over. *)

Trkpt(lat, lon, kids) == [lat |-> lat, lon |-> lon, kids |-> kids]

Trk(name, kids, segs) == [name |-> name, kids |-> kids, segs |-> segs]

RECURSIVE TrkptAddrsFrom(_, _)
TrkptAddrsFrom(segs, i) ==
    IF i > Len(segs) THEN <<>>
    ELSE [j \in 1..Len(segs[i]) |-> <<i, j>>] \o TrkptAddrsFrom(segs, i + 1)

\* _iterate_over(segment, 'trkpt', f): the (parent, child) pairs f is called
\* with, in order; <<i, j>> is child j of trkseg i as it stood when the walk
\* reached that trkseg (findall returns a list, so a removal does not disturb
\* the walk over the children of one parent).  The element is a trk whose
\* trkpt elements are the children of its trkseg children.
TrkptAddrs(trk) == TrkptAddrsFrom(trk.segs, 1)

PointAt(trk, a) == trk.segs[a[1]][a[2]]

RECURSIVE SelectIdx(_, _, _)
SelectIdx(s, keep, j) ==
    IF j > Len(s) THEN <<>>
    ELSE (IF j \in keep THEN <<s[j]>> ELSE <<>>) \o SelectIdx(s, keep, j + 1)

\* the element after parent.remove(child) for every pair in removed
RemoveAll(trk, removed) ==
    [trk EXCEPT !.segs = [i \in 1..Len(trk.segs) |->
        SelectIdx(trk.segs[i], {j \in 1..Len(trk.segs[i]) : <<i, j>> \notin removed}, 1)]]

\* float(waypt.attrib['lat']), float(waypt.attrib['lon'])
latlon(waypt) == <<Float(waypt.lat), Float(waypt.lon)>>

Abs(x) == IF x < 0 THEN 0 - x ELSE x

cross(p_a, p_b, p_c) ==
    LET a == latlon(p_a)  b == latlon(p_b)  c == latlon(p_c)
        a_b == <<b[1] - a[1], b[2] - a[2]>>
        b_c == <<c[1] - b[1], c[2] - b[2]>>
    IN  a_b[1] * b_c[2] - a_b[2] * b_c[1]

dot(p_a, p_b, p_c) ==
    LET a == latlon(p_a)  b == latlon(p_b)  c == latlon(p_c)
        a_b == <<b[1] - a[1], b[2] - a[2]>>
        b_c == <<c[1] - b[1], c[2] - b[2]>>
    IN  a_b[1] * b_c[1] + a_b[2] * b_c[2]

----------------------------------------------------------------------------
(* The filters.  Each walks the element it is given with _iterate_over.    *)

RECURSIVE KeepEveryWalkMut(_, _, _, _)
\* a subsampler that keeps the first point of every k instead of the last
KeepEveryWalkMut(addrs, k, count, removed) ==
    IF addrs = <<>> THEN removed
    ELSE KeepEveryWalkMut(Tail(addrs), k, count + 1,
             IF (count + 1) % k # 1 % k THEN removed \cup {Head(addrs)} ELSE removed)

RECURSIVE KeepEveryWalk(_, _, _, _)
\* keepevery's _f over the pairs of the walk: the pairs it removes
KeepEveryWalk(addrs, k, count, removed) ==
    IF addrs = <<>> THEN removed
    ELSE KeepEveryWalk(Tail(addrs), k, count + 1,
             IF (count + 1) % k # 0 THEN removed \cup {Head(addrs)} ELSE removed)

keepevery(trk, k) == RemoveAll(trk, KeepEveryWalk(TrkptAddrs(trk), k, 0, {}))

\* a loop condition without the dot-product guard
PopGuardMut(trk, path, child, tol) ==
    /\ Len(path) >= 2
    /\ Abs(cross(PointAt(trk, path[Len(path) - 1]), PointAt(trk, path[Len(path)]),
                 PointAt(trk, child))) <= tol

\* a loop condition that compares the cross product with < instead of <=
PopGuardStrict(trk, path, child, tol) ==
    /\ Len(path) >= 2
    /\ dot(PointAt(trk, path[Len(path) - 1]), PointAt(trk, path[Len(path)]),
           PointAt(trk, child)) > 0
    /\ Abs(cross(PointAt(trk, path[Len(path) - 1]), PointAt(trk, path[Len(path)]),
                 PointAt(trk, child))) < tol

\* the condition of the while loop in linearize's _f
PopGuard(trk, path, child, tol) ==
    /\ Len(path) >= 2
    /\ dot(PointAt(trk, path[Len(path) - 1]), PointAt(trk, path[Len(path)]),
           PointAt(trk, child)) > 0
    /\ Abs(cross(PointAt(trk, path[Len(path) - 1]), PointAt(trk, path[Len(path)]),
                 PointAt(trk, child))) <= tol

RECURSIVE PopWhile(_, _, _, _)
\* the while loop in linearize's _f; st is [path, log], log the removals as
\* [a, b, c]: b removed, a below it on the stack, c the incoming point
PopWhile(trk, st, child, tol) ==
    IF PopGuard(trk, st.path, child, tol)
    THEN PopWhile(trk,
             [path |-> SubSeq(st.path, 1, Len(st.path) - 1),
              log  |-> Append(st.log, [a |-> st.path[Len(st.path) - 1],
                                       b |-> st.path[Len(st.path)],
                                       c |-> child])],
             child, tol)
    ELSE st

RECURSIVE LinearizeWalk(_, _, _, _)
\* linearize's _f over the pairs of the walk
LinearizeWalk(trk, addrs, tol, st) ==
    IF addrs = <<>> THEN st
    ELSE LET popped == PopWhile(trk, st, Head(addrs), tol)
         IN  LinearizeWalk(trk, Tail(addrs), tol,
                 [popped EXCEPT !.path = Append(popped.path, Head(addrs))])

\* the stack and the removals linearize ends with
LinearizeRun(trk, tol) == LinearizeWalk(trk, TrkptAddrs(trk), tol, [path |-> <<>>, log |-> <<>>])

linearize(trk, tol) ==
    LET log == LinearizeRun(trk, tol).log
    IN  RemoveAll(trk, {log[n].b : n \in 1..Len(log)})

\* filterlatlon's test of one point
InRange(waypt, latrange, lonrange) ==
    LET lat == Float(waypt.lat)
        lon == Float(waypt.lon)
    IN  /\ latrange[1] <= lat /\ lat <= latrange[2]
        /\ lonrange[1] <= lon /\ lon <= lonrange[2]

filterlatlon(trk, latrange, lonrange) ==
    LET addrs == TrkptAddrs(trk)
    IN  RemoveAll(trk, {a \in {addrs[n] : n \in 1..Len(addrs)} :
                           ~ InRange(PointAt(trk, a), latrange, lonrange)})

\* a strip that removes the tag from the trkpt elements only
StripTagMut(trk, tag) ==
    [trk EXCEPT !.segs = [i \in 1..Len(trk.segs) |->
                    [j \in 1..Len(trk.segs[i]) |->
                        [trk.segs[i][j] EXCEPT !.kids = @ \ {tag}]]]]

\* _iterate_over(segment, tag, _remove_all): every element of the subtree,
\* the trk itself included, loses its children of that tag
StripTag(trk, tag) ==
    [trk EXCEPT !.kids = @ \ {tag},
                !.segs = [i \in 1..Len(trk.segs) |->
                    [j \in 1..Len(trk.segs[i]) |->
                        [trk.segs[i][j] EXCEPT !.kids = @ \ {tag}]]]]

striptime(trk) == StripTag(trk, "time")

stripextensions(trk) == StripTag(trk, "extensions")

stripelevation(trk) == StripTag(trk, "ele")

striptrailingzeros(trk) ==
    [trk EXCEPT !.segs = [i \in 1..Len(trk.segs) |->
                    [j \in 1..Len(trk.segs[i]) |->
                        [trk.segs[i][j] EXCEPT !.lat = RStripZero(@), !.lon = RStripZero(@)]]]]

empty(trk) == TrkptAddrs(trk) = <<>>

\* one term of a distance sum: the great-circle distance of two points, kept
\* as the term itself
haversine(lon1, lat1, lon2, lat2) == SetToBag({<<lon1, lat1, lon2, lat2>>})

\* last = None, None
NoLast == <<>>

RECURSIVE SumWalk(_, _, _, _)
\* sum_segment_distance's _sum_functor over the pairs of the walk
SumWalk(trk, addrs, last, total) ==
    IF addrs = <<>> THEN total
    ELSE LET ll == latlon(PointAt(trk, Head(addrs)))
         IN  SumWalk(trk, Tail(addrs), ll,
                 IF last # NoLast
                 THEN total (+) haversine(last[2], last[1], ll[2], ll[1])
                 ELSE total)

sum_segment_distance(trk) == SumWalk(trk, TrkptAddrs(trk), NoLast, EmptyBag)

----------------------------------------------------------------------------
(* main.  The input files, already in sorted order, hold the tracks of     *)
(* Templates; the command line is drawn from the options' values.          *)

Text1 == <<"1">>
Text10 == <<"1", "0">>

PtKids == {"ele", "time", "extensions"}

\* a track with every point outside --latrange
TrkOut == Trk("out", {"time"},
    << <<Trkpt(<<"2", "0">>, <<"1">>, PtKids), Trkpt(<<"2", "0">>, <<"2">>, PtKids)>> >>)

\* a track of two points
TrkShort == Trk("short", {"time"},
    << <<Trkpt(<<"1", ".", "0">>, <<"1">>, PtKids),
         Trkpt(<<"2">>, <<"1", ".", "5", "0">>, {"ele", "time"})>> >>)

\* a track of two segments, the first in line with the start of the second
TrkLong == Trk("long", {"time", "extensions"},
    << <<Trkpt(<<"1">>, <<"1">>, PtKids), Trkpt(<<"2">>, <<"2">>, PtKids),
         Trkpt(<<"3">>, <<"3">>, PtKids)>>,
       <<Trkpt(<<"4">>, <<"4">>, PtKids), Trkpt(<<"4">>, <<"5">>, PtKids),
         Trkpt(<<"1", "0">>, <<"5">>, PtKids), Trkpt(<<"2", "0">>, <<"5">>, PtKids)>> >>)

Templates == {TrkOut, TrkShort, TrkLong}

\* the file (1, 2, ...) that holds track i, when a file ends after each track in cuts
FileOf(i, cuts) == 1 + Cardinality({c \in cuts : c < i})

\* tree.getroot()'s trk children, as element ids, for file f
RootOf(f, n, cuts) == SelectIdx([i \in 1..n |-> i], {i \in 1..n : FileOf(i, cuts) = f}, 1)

\* argparse: type=float for the ranges and the tolerance
ArgFloat(s) == Float(s)

\* the tolerance is compared with a product of two differences
TolOf(s) == Float(s) * Scale

Args(k, lin, tol, st, se, sz, sx, latr, lonr) ==
    [keepevery |-> k, linearize |-> lin, linearizetol |-> TolOf(tol),
     striptime |-> st, stripelevation |-> se, striptrailingzeros |-> sz,
     stripextensions |-> sx,
     latrange |-> <<ArgFloat(latr[1]), ArgFloat(latr[2])>>,
     lonrange |-> <<ArgFloat(lonr[1]), ArgFloat(lonr[2])>>]

NoLog == <<>>

Init ==
    /\ \E n \in 1..MaxTracks : \E cuts \in SUBSET (1..(n - 1)) : \E tr \in [1..n -> Templates] :
          /\ elem = tr
          /\ trees = [f \in 1..(Cardinality(cuts) + 1) |-> RootOf(f, n, cuts)]
    /\ orig = elem
    /\ \E k \in 1..MaxK : \E lin, st, se, sz, sx \in BOOLEAN :
          args = Args(k, lin, <<"0">>, st, se, sz, sx, <<Text1, Text10>>, <<Text1, Text10>>)
    /\ master_tree = None
    /\ total_distance = EmptyBag
    /\ fileIdx = 0
    /\ iterIdx = 0
    /\ segment = None
    /\ pc = "files"
    /\ runs = [t \in DOMAIN elem |-> 0]
    /\ steps = <<>>
    /\ removed_log = NoLog
    /\ added = [t \in DOMAIN elem |-> EmptyBag]

TotalRuns == LET S == DOMAIN runs
                 RECURSIVE Sum(_)
                 Sum(T) == IF T = {} THEN 0 ELSE LET t == CHOOSE x \in T : TRUE IN runs[t] + Sum(T \ {t})
             IN  Sum(S)

\* a pipeline that sums the distance before the strip steps
PipelineMut ==
    <<"keepevery", "linearize", "filterlatlon", "empty", "sum_segment_distance",
      "striptime", "stripelevation", "striptrailingzeros", "stripextensions", "combine">>

\* the statements of main's loop body, in order
Pipeline ==
    <<"keepevery", "linearize", "filterlatlon", "striptime", "stripelevation",
      "striptrailingzeros", "stripextensions", "empty", "sum_segment_distance", "combine">>

IndexOf(s, x) == CHOOSE i \in 1..Len(s) : s[i] = x

\* the statement after statement p
After(p) == Pipeline[IndexOf(Pipeline, p) + 1]

\* for gpx_file in sorted(args.gpxfile): tree = parse(gpx_file)
NextFile ==
    /\ pc = "files"
    /\ fileIdx < Len(trees)
    /\ fileIdx' = fileIdx + 1
    /\ iterIdx' = 0
    /\ pc' = "tracks"
    /\ UNCHANGED <<trees, elem, orig, args, master_tree, total_distance, segment, runs,
                   steps, removed_log, added>>

\* the loop over the files ends
EndOfFiles ==
    /\ pc = "files"
    /\ fileIdx >= Len(trees)
    /\ pc' = "write"
    /\ UNCHANGED <<trees, elem, orig, args, master_tree, total_distance, fileIdx, iterIdx,
                   segment, runs, steps, removed_log, added>>

\* for segment in tree.iter(trk): the iterator reads the root's children as
\* they are now
NextTrack ==
    /\ pc = "tracks"
    /\ iterIdx < Len(trees[fileIdx])
    /\ TotalRuns < MaxRuns
    /\ segment' = trees[fileIdx][iterIdx + 1]
    /\ iterIdx' = iterIdx + 1
    /\ runs' = [runs EXCEPT ![segment'] = @ + 1]
    /\ steps' = <<>>
    /\ pc' = Pipeline[1]
    /\ UNCHANGED <<trees, elem, orig, args, master_tree, total_distance, fileIdx,
                   removed_log, added>>

\* the iterator is exhausted
EndOfTracks ==
    /\ pc = "tracks"
    /\ iterIdx >= Len(trees[fileIdx])
    /\ pc' = "files"
    /\ UNCHANGED <<trees, elem, orig, args, master_tree, total_distance, fileIdx, iterIdx,
                   segment, runs, steps, removed_log, added>>

\* what a statement of the loop body leaves alone
Frame == UNCHANGED <<trees, orig, args, master_tree, total_distance, fileIdx, iterIdx,
                     segment, runs, added>>

\* keepevery(segment, args.keepevery)
DoKeepEvery ==
    /\ pc = "keepevery"
    /\ elem' = [elem EXCEPT ![segment] = keepevery(@, args.keepevery)]
    /\ steps' = Append(steps, "keepevery")
    /\ pc' = After("keepevery")
    /\ UNCHANGED removed_log
    /\ Frame

\* if args.linearize: linearize(segment, args.linearizetol)
DoLinearize ==
    /\ pc = "linearize"
    /\ IF args.linearize
       THEN /\ elem' = [elem EXCEPT ![segment] = linearize(@, args.linearizetol)]
            /\ removed_log' = LinearizeRun(elem[segment], args.linearizetol).log
            /\ steps' = Append(steps, "linearize")
       ELSE UNCHANGED <<elem, removed_log, steps>>
    /\ pc' = After("linearize")
    /\ Frame

\* filterlatlon(segment, args.latrange, args.lonrange)
DoFilterLatLon ==
    /\ pc = "filterlatlon"
    /\ elem' = [elem EXCEPT ![segment] = filterlatlon(@, args.latrange, args.lonrange)]
    /\ steps' = Append(steps, "filterlatlon")
    /\ pc' = After("filterlatlon")
    /\ UNCHANGED removed_log
    /\ Frame

\* if args.striptime: striptime(segment)
DoStripTime ==
    /\ pc = "striptime"
    /\ IF args.striptime
       THEN /\ elem' = [elem EXCEPT ![segment] = striptime(@)]
            /\ steps' = Append(steps, "striptime")
       ELSE UNCHANGED <<elem, steps>>
    /\ pc' = After("striptime")
    /\ UNCHANGED removed_log
    /\ Frame

\* if args.stripelevation: stripelevation(segment)
DoStripElevation ==
    /\ pc = "stripelevation"
    /\ IF args.stripelevation
       THEN /\ elem' = [elem EXCEPT ![segment] = stripelevation(@)]
            /\ steps' = Append(steps, "stripelevation")
       ELSE UNCHANGED <<elem, steps>>
    /\ pc' = After("stripelevation")
    /\ UNCHANGED removed_log
    /\ Frame

\* if args.striptrailingzeros: striptrailingzeros(segment)
DoStripTrailingZeros ==
    /\ pc = "striptrailingzeros"
    /\ IF args.striptrailingzeros
       THEN /\ elem' = [elem EXCEPT ![segment] = striptrailingzeros(@)]
            /\ steps' = Append(steps, "striptrailingzeros")
       ELSE UNCHANGED <<elem, steps>>
    /\ pc' = After("striptrailingzeros")
    /\ UNCHANGED removed_log
    /\ Frame

\* if args.stripextensions: stripextensions(segment)
DoStripExtensions ==
    /\ pc = "stripextensions"
    /\ IF args.stripextensions
       THEN /\ elem' = [elem EXCEPT ![segment] = stripextensions(@)]
            /\ steps' = Append(steps, "stripextensions")
       ELSE UNCHANGED <<elem, steps>>
    /\ pc' = After("stripextensions")
    /\ UNCHANGED removed_log
    /\ Frame

\* if not empty(segment): an empty track ends the loop body
DoEmpty ==
    /\ pc = "empty"
    /\ steps' = Append(steps, "empty")
    /\ pc' = IF empty(elem[segment]) THEN "tracks" ELSE After("empty")
    /\ UNCHANGED <<elem, removed_log>>
    /\ Frame

\* segment_distance = sum_segment_distance(segment); total_distance += segment_distance
DoSumSegmentDistance ==
    /\ pc = "sum_segment_distance"
    /\ total_distance' = total_distance (+) sum_segment_distance(elem[segment])
    /\ added' = [added EXCEPT ![segment] = @ (+) sum_segment_distance(elem[segment])]
    /\ steps' = Append(steps, "sum_segment_distance")
    /\ pc' = After("sum_segment_distance")
    /\ UNCHANGED <<trees, elem, orig, args, master_tree, fileIdx, iterIdx, segment, runs,
                   removed_log>>

\* if master_tree: master_tree.getroot().append(segment) else: master_tree = tree
DoCombine ==
    /\ pc = "combine"
    /\ IF master_tree # None
       THEN /\ trees' = [trees EXCEPT ![master_tree] = Append(@, segment)]
            /\ UNCHANGED master_tree
       ELSE /\ master_tree' = fileIdx
            /\ UNCHANGED trees
    /\ pc' = "tracks"
    /\ UNCHANGED <<elem, orig, args, total_distance, fileIdx, iterIdx, segment, runs,
                   steps, removed_log, added>>

\* master_tree.write(out, xml_declaration=True)
Write ==
    /\ pc = "write"
    /\ pc' = IF master_tree = None THEN "AttributeError" ELSE "written"
    /\ UNCHANGED <<trees, elem, orig, args, master_tree, total_distance, fileIdx, iterIdx,
                   segment, runs, steps, removed_log, added>>

Next ==
    \/ NextFile
    \/ EndOfFiles
    \/ NextTrack
    \/ EndOfTracks
    \/ DoKeepEvery
    \/ DoLinearize
    \/ DoFilterLatLon
    \/ DoStripTime
    \/ DoStripElevation
    \/ DoStripTrailingZeros
    \/ DoStripExtensions
    \/ DoEmpty
    \/ DoSumSegmentDistance
    \/ DoCombine
    \/ Write

Spec == Init /\ [][Next]_vars

\* the trk elements of the written tree, in order
Output == [i \in 1..Len(trees[master_tree]) |-> trees[master_tree][i]]

----------------------------------------------------------------------------
(* The claims about main. *)

ElemIds == DOMAIN elem

Range(s) == {s[i] : i \in 1..Len(s)}

\* where x first stands in s, 0 when it does not
Pos(s, x) == IF x \in Range(s) THEN CHOOSE i \in 1..Len(s) : s[i] = x /\ \A j \in 1..(i - 1) : s[j] # x ELSE 0

Count(s, x) == Cardinality({i \in 1..Len(s) : s[i] = x})

RECURSIVE BagSum(_, _)
\* the sum of f[t] over the elements t of T
BagSum(f, T) ==
    IF T = {} THEN EmptyBag
    ELSE LET t == CHOOSE x \in T : TRUE IN f[t] (+) BagSum(f, T \ {t})

\* main has ended its loops and written the output
Written == pc = "written"

\* the loop body of element t is not under way
Finished(t) == runs[t] >= 1 /\ ~ (segment = t /\ pc \in Range(Pipeline))

StripSteps == {"striptime", "stripelevation", "striptrailingzeros", "stripextensions"}

\* C1: a segment with no waypoints after the pipeline is not in the written
\* output and has added nothing to the total distance.
C1_EmptyExcluded ==
    Written => \A t \in ElemIds :
        empty(elem[t]) => (t \notin Range(Output) /\ added[t] = EmptyBag)

\* C2: main completes its output step without failing, also when every
\* segment of every input file has become empty.
C2_WriteNeverFails == pc # "AttributeError"

\* C4: the total distance is the sum of sum_segment_distance over exactly the
\* non-empty segments of the written output, each counted once.
C4_TotalIsSumOfOutput ==
    Written => total_distance =
        BagSum([t \in ElemIds |-> sum_segment_distance(elem[t])],
               {t \in Range(Output) : ~ empty(elem[t])})

\* C5 as stated: the track's own name and creation time are what they were
\* when parsed, whatever the strip flags.
C5_MetadataUnmodified ==
    \A t \in ElemIds :
        /\ elem[t].name = orig[t].name
        /\ ("time" \in elem[t].kids) = ("time" \in orig[t].kids)

\* C5 amended: the track's name is never changed; its own time child is kept
\* when --striptime is off, and is gone once striptime has run on the track.
C5_NameKeptTimeStripped ==
    \A t \in ElemIds :
        /\ elem[t].name = orig[t].name
        /\ ~ args.striptime => ("time" \in elem[t].kids) = ("time" \in orig[t].kids)
        /\ (args.striptime /\ Finished(t)) => "time" \notin elem[t].kids

\* a track that had a time child of its own has been through the pipeline
\* with --striptime, and the output is written
C5_Witness ==
    /\ Written
    /\ args.striptime
    /\ \E t \in ElemIds : Finished(t) /\ "time" \in orig[t].kids /\ t \in Range(Output)

\* C9 as stated: in each loop body the distance is computed exactly once,
\* after the point-removing filters and before any strip step.
C9_DistanceBeforeStrip ==
    /\ \A x \in StripSteps : x \in Range(steps) =>
          /\ "sum_segment_distance" \in Range(steps)
          /\ Pos(steps, "sum_segment_distance") < Pos(steps, x)
    /\ "sum_segment_distance" \in Range(steps) =>
          /\ Count(steps, "sum_segment_distance") = 1
          /\ {"keepevery", "filterlatlon"} \subseteq Range(steps)
    /\ (pc = "tracks" /\ steps # <<>>) => Count(steps, "sum_segment_distance") = 1

\* C9 amended: in each loop body the distance is computed at most once, and
\* only for a non-empty segment; when it is computed, keepevery, linearize
\* (if enabled), filterlatlon, every enabled strip step and empty have run
\* before it, each once, and nothing runs on the segment after it.
C9_DistanceAfterStrip ==
    /\ Count(steps, "sum_segment_distance") <= 1
    /\ "sum_segment_distance" \in Range(steps) =>
          /\ steps[Len(steps)] = "sum_segment_distance"
          /\ ~ empty(elem[segment])
          /\ \A x \in {"keepevery", "filterlatlon", "empty"} : Count(steps, x) = 1
          /\ Count(steps, "linearize") = (IF args.linearize THEN 1 ELSE 0)
          /\ Count(steps, "striptime") = (IF args.striptime THEN 1 ELSE 0)
          /\ Count(steps, "stripelevation") = (IF args.stripelevation THEN 1 ELSE 0)
          /\ Count(steps, "striptrailingzeros") = (IF args.striptrailingzeros THEN 1 ELSE 0)
          /\ Count(steps, "stripextensions") = (IF args.stripextensions THEN 1 ELSE 0)
    /\ (pc = "tracks" /\ steps # <<>>) =>
          ("sum_segment_distance" \in Range(steps)) = (~ empty(elem[segment]))

\* a loop body has computed the distance after striptrailingzeros rewrote a
\* coordinate text it is computed from
C9_Witness ==
    /\ pc = "combine"
    /\ "striptrailingzeros" \in Range(steps)
    /\ "sum_segment_distance" \in Range(steps)
    /\ \E a \in Range(TrkptAddrs(elem[segment])) :
          \E b \in Range(TrkptAddrs(orig[segment])) :
              /\ PointAt(orig[segment], b).lat # PointAt(elem[segment], a).lat
              /\ RStripZero(PointAt(orig[segment], b).lat) = PointAt(elem[segment], a).lat

\* C10: main's loops end with the pipeline run on each track of each file
\* exactly once.
C10_EachTrackOnce ==
    /\ \A t \in ElemIds : runs[t] <= 1
    /\ pc \in {"write", "written", "AttributeError"} => \A t \in ElemIds : runs[t] = 1

----------------------------------------------------------------------------
(* The filters on their own: one call on one element, the element and the  *)
(* arguments drawn from bounded sets.                                      *)

\* the state around a single call
Alone(trk, a) ==
    /\ elem = <<trk>>
    /\ orig = elem
    /\ args = a
    /\ trees = << <<1>> >>
    /\ master_tree = None
    /\ total_distance = EmptyBag
    /\ fileIdx = 1
    /\ iterIdx = 1
    /\ segment = 1
    /\ pc = "call"
    /\ runs = <<1>>
    /\ steps = <<>>
    /\ removed_log = NoLog
    /\ added = <<EmptyBag>>

AloneFrame == UNCHANGED <<trees, orig, args, master_tree, total_distance, fileIdx, iterIdx,
                          segment, runs, added>>

Returned == pc = "returned"

DefaultArgs == Args(1, TRUE, <<"0">>, FALSE, TRUE, TRUE, TRUE, <<Text1, Text10>>, <<Text1, Text10>>)

\* the points of the element, in the order of the walk
Points(trk) == [n \in 1..Len(TrkptAddrs(trk)) |-> PointAt(trk, TrkptAddrs(trk)[n])]

\* how many points the trksegs before trkseg i hold
RECURSIVE Offset(_, _)
Offset(trk, i) == IF i <= 1 THEN 0 ELSE Offset(trk, i - 1) + Len(trk.segs[i - 1])

\* the first `first` of the points as one trkseg, the others as a second
TwoSegs(pts, first) ==
    IF first >= Len(pts) THEN <<pts>>
    ELSE <<SubSeq(pts, 1, first), SubSeq(pts, first + 1, Len(pts))>>

(* striptrailingzeros *)

TextChars == {"0", "1", "."}

\* the decimal texts of at most MaxLen characters over TextChars, signed or
\* not, that float() accepts and that have at most FracDigits decimals
CoordTexts ==
    LET plain == UNION {[1..n -> TextChars] : n \in 1..MaxLen}
        all   == plain \cup {<<"-">> \o t : t \in {u \in plain : Len(u) < MaxLen}}
    IN  {t \in all : /\ IsFloatText(t)
                     /\ \A i \in 1..Len(t) : t[i] = "." => Len(t) - i <= FracDigits}

InitStrip ==
    \E lat \in CoordTexts : \E lon \in {Text1, Text10} :
        Alone(Trk("t", {}, << <<Trkpt(lat, lon, {})>> >>), DefaultArgs)

CallStripTrailingZeros ==
    /\ pc = "call"
    /\ elem' = [elem EXCEPT ![1] = striptrailingzeros(@)]
    /\ steps' = Append(steps, "striptrailingzeros")
    /\ pc' = "returned"
    /\ UNCHANGED removed_log
    /\ AloneFrame

NextStrip == CallStripTrailingZeros

SpecStrip == InitStrip /\ [][NextStrip]_vars

\* text t still denotes a number, the one text s denotes
SameNumber(s, t) == IsFloatText(t) /\ Float(t) = Float(s)

\* C3: striptrailingzeros never changes the number a latitude or longitude
\* text denotes.
C3_ValueKept ==
    Returned => \A n \in 1..Len(Points(orig[1])) :
        /\ SameNumber(Points(orig[1])[n].lat, Points(elem[1])[n].lat)
        /\ SameNumber(Points(orig[1])[n].lon, Points(elem[1])[n].lon)

(* keepevery *)

\* point number i of a segment: its latitude text tells it from the others
KeepPoint(i) == Trkpt(IntText(i), Text1, {"time"})

InitKeep ==
    \E n \in 0..MaxKeepPts : \E first \in 0..n : \E k \in 1..MaxKeepK :
        Alone(Trk("t", {"time"}, TwoSegs([i \in 1..n |-> KeepPoint(i)], first)),
              [DefaultArgs EXCEPT !.keepevery = k])

CallKeepEvery ==
    /\ pc = "call"
    /\ elem' = [elem EXCEPT ![1] = keepevery(@, args.keepevery)]
    /\ steps' = Append(steps, "keepevery")
    /\ pc' = "returned"
    /\ UNCHANGED removed_log
    /\ AloneFrame

NextKeep == CallKeepEvery

SpecKeep == InitKeep /\ [][NextKeep]_vars

\* C6: keepevery(segment, k) keeps floor(n/k) of the n points of the segment
\* it is given: those whose 1-based position is a multiple of k, in their
\* order, each in the trkseg it was in.
C6_KeepsMultiplesOfK ==
    Returned =>
        LET k == args.keepevery
            before == Points(orig[1])
            after  == Points(elem[1])
        IN  /\ Len(after) = Len(before) \div k
            /\ \A m \in 1..Len(after) : after[m] = before[m * k]
            /\ Len(elem[1].segs) = Len(orig[1].segs)
            /\ \A i \in 1..Len(orig[1].segs) :
                  elem[1].segs[i] = SelectIdx(orig[1].segs[i],
                      {j \in 1..Len(orig[1].segs[i]) : (Offset(orig[1], i) + j) % k = 0}, 1)

\* keep-every 3 on a segment of 10 points has kept the points 3, 6 and 9
C6_Witness ==
    /\ Returned
    /\ args.keepevery = 3
    /\ Len(Points(orig[1])) = 10
    /\ Points(elem[1]) = <<KeepPoint(3), KeepPoint(6), KeepPoint(9)>>

(* linearize *)

\* str(n)
SignedText(n) == IF n < 0 THEN <<"-">> \o IntText(0 - n) ELSE IntText(n)

\* the steps, in degrees of latitude and longitude, a path is drawn from
LinMoves == {<<1, 0>>, <<2, 0>>, <<-1, 0>>, <<0, 1>>, <<1, 1>>, <<1, -1>>, <<0, 0>>}

RECURSIVE PathFrom(_, _, _)
\* the points reached from (lat, lon) by the moves, (lat, lon) first
PathFrom(lat, lon, moves) ==
    <<Trkpt(SignedText(lat), SignedText(lon), {})>> \o
        (IF moves = <<>> THEN <<>>
         ELSE PathFrom(lat + Head(moves)[1], lon + Head(moves)[2], Tail(moves)))

\* the paths of n points that start at (0, 0)
LinPaths(n) == IF n = 0 THEN {<<>>} ELSE {PathFrom(0, 0, m) : m \in [1..(n - 1) -> LinMoves]}

LinTols == {<<"0">>, <<"1">>}

InitLin ==
    \E n \in 0..MaxLinPts : \E pts \in LinPaths(n) : \E first \in {n \div 2, n} :
        \E tol \in LinTols :
            Alone(Trk("t", {}, TwoSegs(pts, first)),
                  [DefaultArgs EXCEPT !.linearizetol = TolOf(tol)])

CallLinearize ==
    /\ pc = "call"
    /\ elem' = [elem EXCEPT ![1] = linearize(@, args.linearizetol)]
    /\ removed_log' = LinearizeRun(elem[1], args.linearizetol).log
    /\ steps' = Append(steps, "linearize")
    /\ pc' = "returned"
    /\ AloneFrame

NextLin == CallLinearize

SpecLin == InitLin /\ [][NextLin]_vars

\* the place of address a in the walk over the element as parsed
WalkPos(a) == Offset(orig[1], a[1]) + a[2]

\* C7: linearize never increases the point count, and each point b it removes
\* had dot(a, b, c) > 0 and |cross(a, b, c)| <= tol when it was removed, a
\* the retained point below b on the stack and c the incoming point.
C7_RemovesOnlyNearCollinear ==
    Returned =>
        LET trk == orig[1]
            log == removed_log
            gone(n) == {log[m].b : m \in 1..(n - 1)}
        IN  /\ Len(Points(elem[1])) <= Len(Points(trk))
            /\ elem[1] = RemoveAll(trk, {log[n].b : n \in 1..Len(log)})
            /\ \A n \in 1..Len(log) :
                  /\ dot(PointAt(trk, log[n].a), PointAt(trk, log[n].b),
                         PointAt(trk, log[n].c)) > 0
                  /\ Abs(cross(PointAt(trk, log[n].a), PointAt(trk, log[n].b),
                               PointAt(trk, log[n].c))) <= args.linearizetol
                  /\ log[n].b \notin gone(n)
                  /\ WalkPos(log[n].a) < WalkPos(log[n].b)
                  /\ WalkPos(log[n].b) < WalkPos(log[n].c)
                  /\ \A x \in Range(TrkptAddrs(trk)) :
                        (WalkPos(log[n].a) < WalkPos(x) /\ WalkPos(x) < WalkPos(log[n].c)
                            /\ x # log[n].b) => x \in gone(n)

\* linearize has removed a point, and kept another that lies in line with
\* its neighbours where the path reverses
C7_Witness ==
    /\ Returned
    /\ removed_log # <<>>
    /\ \E n \in 2..(Len(Points(elem[1])) - 1) :
          /\ cross(Points(elem[1])[n - 1], Points(elem[1])[n], Points(elem[1])[n + 1]) = 0
          /\ dot(Points(elem[1])[n - 1], Points(elem[1])[n], Points(elem[1])[n + 1]) < 0

\* the points lie on one line and advance along it in non-zero steps
Collinear(pts) ==
    /\ Len(pts) >= 2
    /\ pts[1] # pts[2]
    /\ \A i, j, k \in 1..Len(pts) : (i < j /\ j < k) =>
          /\ cross(pts[i], pts[j], pts[k]) = 0
          /\ dot(pts[i], pts[j], pts[k]) > 0

\* C8: of a segment of n >= 2 points on one line, advancing in one direction
\* in non-zero steps, linearize leaves the first and the last point, for
\* every tol >= 0.
C8_CollinearLeavesEnds ==
    (Returned /\ Collinear(Points(orig[1]))) =>
        Points(elem[1]) = <<Points(orig[1])[1], Points(orig[1])[Len(Points(orig[1]))]>>

\* five points in line have been reduced to the first and the last, with
\* tolerance 0
C8_Witness ==
    /\ Returned
    /\ args.linearizetol = 0
    /\ Len(Points(orig[1])) = 5
    /\ Collinear(Points(orig[1]))
    /\ Len(Points(elem[1])) = 2

====
